---- MODULE Spec2Model ----
(***************************************************************************)
(* Model of the new_send_swap program (programs/new_send_swap/src/lib.rs): *)
(* a two-asset constant-product pool with initialize_pool, add_liquidity,  *)
(* swap and remove_liquidity, over an SPL-token ledger.                    *)
(*                                                                         *)
(* All amounts of the program are u64.  TLC's integers are 32 bits wide,   *)
(* so a u64 (and the 128-bit products the overflow guards are about) is    *)
(* represented exactly as a sequence of base-1000 limbs, least significant *)
(* first, without leading zero limbs: 0 is << >>, 1_000_000 is <<0,0,1>>.  *)
(***************************************************************************)
EXTENDS Integers, Sequences, FiniteSets, TLC

\* ------------------------------------------------------------------------
\* Exact natural-number arithmetic on limb sequences
\* ------------------------------------------------------------------------

BASE == 10 * 10 * 10

Limb(a, i) == IF i <= Len(a) THEN a[i] ELSE 0

RECURSIVE Norm(_)
Norm(a) ==
    IF a = << >> THEN << >>
    ELSE IF a[Len(a)] = 0 THEN Norm(SubSeq(a, 1, Len(a) - 1))
    ELSE a

\* the limb sequence of a TLC integer n >= 0
RECURSIVE Big(_)
Big(n) == IF n = 0 THEN << >> ELSE <<n % BASE>> \o Big(n \div BASE)

RECURSIVE AddLimbs(_, _, _, _)
AddLimbs(a, b, i, c) ==
    IF i > Len(a) /\ i > Len(b)
    THEN (IF c = 0 THEN << >> ELSE <<c>>)
    ELSE LET s == Limb(a, i) + Limb(b, i) + c
         IN  <<s % BASE>> \o AddLimbs(a, b, i + 1, s \div BASE)

BigAdd(a, b) == AddLimbs(a, b, 1, 0)

\* -1, 0, 1 as a < b, a = b, a > b; i runs from the top limb down
RECURSIVE CmpLimbs(_, _, _)
CmpLimbs(a, b, i) ==
    IF i = 0 THEN 0
    ELSE IF a[i] < b[i] THEN -1
    ELSE IF a[i] > b[i] THEN 1
    ELSE CmpLimbs(a, b, i - 1)

BigCmp(a, b) ==
    IF Len(a) < Len(b) THEN -1
    ELSE IF Len(a) > Len(b) THEN 1
    ELSE CmpLimbs(a, b, Len(a))

BigLT(a, b) == BigCmp(a, b) < 0
BigLE(a, b) == BigCmp(a, b) <= 0
BigGT(a, b) == BigCmp(a, b) > 0
BigGE(a, b) == BigCmp(a, b) >= 0
BigMin(a, b) == IF BigLE(a, b) THEN a ELSE b

\* a - b for a >= b
RECURSIVE SubLimbs(_, _, _, _)
SubLimbs(a, b, i, br) ==
    IF i > Len(a) THEN << >>
    ELSE LET s == a[i] - Limb(b, i) - br
         IN  IF s < 0 THEN <<s + BASE>> \o SubLimbs(a, b, i + 1, 1)
             ELSE <<s>> \o SubLimbs(a, b, i + 1, 0)

BigSub(a, b) == Norm(SubLimbs(a, b, 1, 0))

\* a * k for one limb k
RECURSIVE MulLimb(_, _, _, _)
MulLimb(a, k, i, c) ==
    IF i > Len(a) THEN (IF c = 0 THEN << >> ELSE <<c>>)
    ELSE LET s == a[i] * k + c
         IN  <<s % BASE>> \o MulLimb(a, k, i + 1, s \div BASE)

BigMulSmall(a, k) == IF k = 0 THEN << >> ELSE MulLimb(a, k, 1, 0)

\* rest * BASE
ShiftLimb(rest) == IF rest = << >> THEN << >> ELSE <<0>> \o rest

RECURSIVE MulAcc(_, _, _)
MulAcc(a, b, j) ==
    IF j > Len(b) THEN << >>
    ELSE BigAdd(BigMulSmall(a, b[j]), ShiftLimb(MulAcc(a, b, j + 1)))

BigMul(a, b) == IF a = << >> \/ b = << >> THEN << >> ELSE Norm(MulAcc(a, b, 1))

\* one quotient limb: floor(cur / d) for cur < d * BASE, d > 0
RECURSIVE FixDigit(_, _, _)
FixDigit(cur, d, q) ==
    IF BigLE(BigMulSmall(d, q), cur) THEN q ELSE FixDigit(cur, d, q - 1)

\* the quotient limb estimated from the top limbs, never too small
TopQuotient(ctop, dtop) ==
    IF ctop \div dtop > BASE - 1 THEN BASE - 1 ELSE ctop \div dtop

QDigit(cur, d, n) ==
    IF BigLT(cur, d) THEN 0
    ELSE IF n = 1 THEN (Limb(cur, 2) * BASE + Limb(cur, 1)) \div d[1]
    ELSE FixDigit(cur, d,
             TopQuotient(Limb(cur, n + 1) * BASE * BASE + cur[n] * BASE + cur[n - 1],
                         d[n] * BASE + d[n - 1]))

\* long division, from the top limb of a down; d > 0.  DivLoop shifts the
\* next limb of a into the remainder, DivLimb finds the quotient limb,
\* DivRest subtracts and goes on.
RECURSIVE DivLoop(_, _, _, _)
RECURSIVE DivRest(_, _, _, _, _)
DivCons(qd, rest) == [q |-> rest.q \o <<qd>>, r |-> rest.r]

DivRest(a, d, i, cur, qd) ==
    DivCons(qd, DivLoop(a, d, i - 1, BigSub(cur, BigMulSmall(d, qd))))

DivLimb(a, d, i, cur) == DivRest(a, d, i, cur, QDigit(cur, d, Len(d)))

DivLoop(a, d, i, rem) ==
    IF i = 0 THEN [q |-> << >>, r |-> rem]
    ELSE DivLimb(a, d, i, Norm(<<a[i]>> \o rem))

BigDiv(a, d) == Norm(DivLoop(a, d, Len(a), << >>).q)
BigMod(a, d) == DivLoop(a, d, Len(a), << >>).r

\* ------------------------------------------------------------------------
\* u64
\* ------------------------------------------------------------------------

\* u64::MAX = 18_446_744_073_709_551_615
U64_MAX == <<615, 551, 709, 73, 744, 446, 18>>

\* 2^64
TwoPow64 == <<616, 551, 709, 73, 744, 446, 18>>

IsU64(a) == BigLE(a, U64_MAX)

\* u64::saturating_mul
SaturatingMul(a, b) == BigMin(BigMul(a, b), U64_MAX)

\* acc * 10^k, stopping at the first product past u64::MAX
RECURSIVE Pow10Until(_, _)
Pow10Until(acc, k) ==
    IF k = 0 \/ ~IsU64(acc) THEN acc ELSE Pow10Until(BigMulSmall(acc, 10), k - 1)

\* 10^k while it fits u64; a power of ten past u64::MAX when it does not
Pow10(k) == Pow10Until(<<1>>, k)

\* v mod 2^64 for v < 10 * 2^64
Wrap10(v) == BigSub(v, BigMulSmall(TwoPow64, FixDigit(v, TwoPow64, 9)))

\* acc * 10^k mod 2^64, by wrapping multiplications; 0 stays 0
RECURSIVE Pow10WrapLoop(_, _)
Pow10WrapLoop(acc, k) ==
    IF k = 0 \/ acc = << >> THEN acc
    ELSE Pow10WrapLoop(Wrap10(BigMulSmall(acc, 10)), k - 1)

Pow10Wrapping(k) == Pow10WrapLoop(<<1>>, k)

\* 10u64.pow(k) for the exact power p: p while it fits; past u64 the build
\* decides: with overflow checks the program panics, without them the power
\* wraps mod 2^64
WrapPow(p, k, oc) ==
    IF IsU64(p) THEN [panic |-> FALSE, val |-> p]
    ELSE IF oc THEN [panic |-> TRUE, val |-> << >>]
    ELSE [panic |-> FALSE, val |-> Pow10Wrapping(k)]

Pow10U64(k, oc) == WrapPow(Pow10(k), k, oc)

\* ------------------------------------------------------------------------
\* The token ledger (anchor_spl::token): accounts and mints
\* ------------------------------------------------------------------------

\* the address of a Pool account: the program address derived from the seeds
\* [b"pool", token_a_mint, token_b_mint]
PoolPda(token_a_mint, token_b_mint) ==
    "pool/" \o token_a_mint \o "/" \o token_b_mint

Users     == {"alice"}
FeeOwner  == "owner"

MintIds == {"mintA", "mintB", "mintC", "mintLP"}

AccountIds ==
    {"resA", "resB", "usrA", "usrB", "usrLP", "feeA", "feeB", "altA",
     "usrC", "altC", "feeC"}

\* token::transfer(from, to, authority, amount)
TokenTransfer(acc, from, to, authority, amount) ==
    IF \/ acc[from].mint # acc[to].mint
       \/ acc[from].owner # authority
       \/ BigGT(amount, acc[from].amount)
    THEN [ok |-> FALSE, acc |-> acc]
    ELSE IF from = to THEN [ok |-> TRUE, acc |-> acc]
    ELSE IF ~IsU64(BigAdd(acc[to].amount, amount))
    THEN [ok |-> FALSE, acc |-> acc]
    ELSE [ok |-> TRUE,
          acc |-> [acc EXCEPT ![from].amount = BigSub(@, amount),
                              ![to].amount = BigAdd(@, amount)]]

\* token::mint_to(mint, to, authority, amount)
TokenMintTo(acc, mnt, mint, to, authority, amount) ==
    IF \/ acc[to].mint # mint
       \/ mnt[mint].mint_authority # authority
       \/ ~IsU64(BigAdd(mnt[mint].supply, amount))
       \/ ~IsU64(BigAdd(acc[to].amount, amount))
    THEN [ok |-> FALSE, acc |-> acc, mnt |-> mnt]
    ELSE [ok |-> TRUE,
          acc |-> [acc EXCEPT ![to].amount = BigAdd(@, amount)],
          mnt |-> [mnt EXCEPT ![mint].supply = BigAdd(@, amount)]]

\* token::burn(mint, from, authority, amount)
TokenBurn(acc, mnt, mint, from, authority, amount) ==
    IF \/ acc[from].mint # mint
       \/ acc[from].owner # authority
       \/ BigGT(amount, acc[from].amount)
    THEN [ok |-> FALSE, acc |-> acc, mnt |-> mnt]
    ELSE [ok |-> TRUE,
          acc |-> [acc EXCEPT ![from].amount = BigSub(@, amount)],
          mnt |-> [mnt EXCEPT ![mint].supply = BigSub(@, amount)]]

\* the outcome of an instruction whose n-th call into the token program
\* failed (t is that call's result) or whose calls all succeeded; names are
\* the instruction's calls in the order the code issues them
AfterCpis(t, names, n) == [ok |-> t.ok, res |-> t, cpis |-> SubSeq(names, 1, n)]

\* ------------------------------------------------------------------------
\* swap
\* ------------------------------------------------------------------------

\* scale = 1_000_000_000u64
SCALE == <<0, 0, 0, 1>>

\* SwapFeeSub with the fee charged but not taken off the amount that is priced
SwapFeeSubKeepsFee(amount_in, fee) ==
    [err |-> "Ok", fee |-> fee, amount_in_after_fee |-> amount_in]

\* amount_in.checked_sub(fee)
SwapFeeSub(amount_in, fee) ==
    IF BigGT(fee, amount_in)
    THEN [err |-> "ArithmeticOverflow", fee |-> fee, amount_in_after_fee |-> << >>]
    ELSE [err |-> "Ok", fee |-> fee, amount_in_after_fee |-> BigSub(amount_in, fee)]

\* .checked_div(pool.fee_denominator) of the product prod
SwapFeeDiv(amount_in, prod, fee_denominator) ==
    IF ~IsU64(prod) \/ fee_denominator = << >>
    THEN [err |-> "ArithmeticOverflow", fee |-> << >>, amount_in_after_fee |-> << >>]
    ELSE SwapFeeSub(amount_in, BigDiv(prod, fee_denominator))

\* the fee and amount_in_after_fee of swap (checked_mul, checked_div,
\* checked_sub)
SwapFee(amount_in, fee_numerator, fee_denominator) ==
    SwapFeeDiv(amount_in, BigMul(amount_in, fee_numerator), fee_denominator)

\* the scaled fallback of swap's amount_out
ScaledAmountOut(pool_token_out_balance, amount_in_after_fee, denominator) ==
    BigDiv(SaturatingMul(pool_token_out_balance,
                         BigDiv(SaturatingMul(amount_in_after_fee, SCALE),
                                denominator)),
           SCALE)

\* DirectAmountOut priced against reserve_in alone (amount_in_after_fee left
\* out of the denominator)
DirectAmountOutLinear(pool_token_out_balance, amount_in_after_fee, denominator) ==
    BigDiv(BigMul(pool_token_out_balance, amount_in_after_fee),
           BigSub(denominator, amount_in_after_fee))

\* the direct computation of swap's amount_out
DirectAmountOut(pool_token_out_balance, amount_in_after_fee, denominator) ==
    BigDiv(BigMul(pool_token_out_balance, amount_in_after_fee), denominator)

\* which computation swap takes: "scaled", "direct" or "zero"
AmountOutPath(pool_token_out_balance, amount_in_after_fee) ==
    IF pool_token_out_balance # << >> /\ amount_in_after_fee # << >>
    THEN IF BigGT(pool_token_out_balance, BigDiv(U64_MAX, amount_in_after_fee))
         THEN "scaled" ELSE "direct"
    ELSE "zero"

AmountOutOn(path, pool_token_out_balance, amount_in_after_fee, denominator) ==
    IF path = "scaled"
    THEN ScaledAmountOut(pool_token_out_balance, amount_in_after_fee, denominator)
    ELSE IF path = "direct"
    THEN DirectAmountOut(pool_token_out_balance, amount_in_after_fee, denominator)
    ELSE << >>

AmountOut(pool_token_out_balance, amount_in_after_fee, denominator) ==
    AmountOutOn(AmountOutPath(pool_token_out_balance, amount_in_after_fee),
                pool_token_out_balance, amount_in_after_fee, denominator)

SwapCalc(fee, amount_in_after_fee, reserve_in, reserve_out, amount_out, path) ==
    [fee |-> fee, amount_in_after_fee |-> amount_in_after_fee,
     reserve_in |-> reserve_in, reserve_out |-> reserve_out,
     amount_out |-> amount_out, path |-> path]

NoSwapCalc == SwapCalc(<< >>, << >>, << >>, << >>, << >>, "none")

\* require!(amount_out >= min_amount_out, SlippageExceeded)
SwapSlippage(f, rin, rout, amount_out, path, min_amount_out) ==
    [err  |-> IF BigLT(amount_out, min_amount_out) THEN "SlippageExceeded" ELSE "Ok",
     calc |-> SwapCalc(f.fee, f.amount_in_after_fee, rin, rout, amount_out, path)]

\* the denominator's checked_add, then amount_out
SwapPrice(f, rin, rout, denominator, min_amount_out) ==
    IF ~IsU64(denominator)
    THEN [err |-> "ArithmeticOverflow",
          calc |-> SwapCalc(f.fee, f.amount_in_after_fee, rin, rout, << >>, "none")]
    ELSE SwapSlippage(f, rin, rout,
                      AmountOut(rout, f.amount_in_after_fee, denominator),
                      AmountOutPath(rout, f.amount_in_after_fee), min_amount_out)

\* SwapReserves without the two require!(.. > 0) on the reserves
SwapReservesUnchecked(f, rin, rout, min_amount_out) ==
    IF f.err # "Ok" THEN [err |-> f.err, calc |-> NoSwapCalc]
    ELSE SwapPrice(f, rin, rout, BigAdd(rin, f.amount_in_after_fee), min_amount_out)

\* the two reserve checks, given the fee computation f
SwapReserves(f, rin, rout, min_amount_out) ==
    IF f.err # "Ok" THEN [err |-> f.err, calc |-> NoSwapCalc]
    ELSE IF rin = << >> \/ rout = << >>
    THEN [err |-> "InvalidAmount",
          calc |-> SwapCalc(f.fee, f.amount_in_after_fee, rin, rout, << >>, "none")]
    ELSE SwapPrice(f, rin, rout, BigAdd(rin, f.amount_in_after_fee), min_amount_out)

\* swap up to and including the slippage check: the error it raises, if
\* any, and the values it computed
SwapCompute(acc, p, b, amount_in, min_amount_out) ==
    IF amount_in = << >> THEN [err |-> "InvalidAmount", calc |-> NoSwapCalc]
    ELSE SwapReserves(SwapFee(amount_in, p.fee_numerator, p.fee_denominator),
                      acc[b.pool_token_in].amount, acc[b.pool_token_out].amount,
                      min_amount_out)

SwapCpis(c) ==
    IF c.fee # << >> THEN <<"transfer_fee", "transfer_in", "transfer_out">>
    ELSE <<"transfer_in", "transfer_out">>

\* token::transfer(pool_token_out -> user_token_out, amount_out), signed by
\* the pool
SwapTransferOut(t2, b, c) ==
    IF ~t2.ok THEN AfterCpis(t2, SwapCpis(c), Len(SwapCpis(c)) - 1)
    ELSE AfterCpis(TokenTransfer(t2.acc, b.pool_token_out, b.user_token_out,
                                 b.pool, c.amount_out),
                   SwapCpis(c), Len(SwapCpis(c)))

\* SwapTransferIn moving amount_in, fee included, into the reserve
SwapTransferInWhole(t1, user, b, c) ==
    IF ~t1.ok THEN AfterCpis(t1, SwapCpis(c), 1)
    ELSE SwapTransferOut(TokenTransfer(t1.acc, b.user_token_in, b.pool_token_in,
                                       user, BigAdd(c.amount_in_after_fee, c.fee)),
                         b, c)

\* token::transfer(user_token_in -> pool_token_in, amount_in_after_fee)
SwapTransferIn(t1, user, b, c) ==
    IF ~t1.ok THEN AfterCpis(t1, SwapCpis(c), 1)
    ELSE SwapTransferOut(TokenTransfer(t1.acc, b.user_token_in, b.pool_token_in,
                                       user, c.amount_in_after_fee), b, c)

\* the transfers of swap in the order the code issues them: the fee to
\* owner_token_account if fee > 0, then amount_in_after_fee, then amount_out
SwapTransfers(acc, user, b, c) ==
    SwapTransferIn(IF c.fee # << >>
                   THEN TokenTransfer(acc, b.user_token_in, b.owner_token_account,
                                      user, c.fee)
                   ELSE [ok |-> TRUE, acc |-> acc],
                   user, b, c)

\* SwapOutcome with the slippage check made after the transfers were issued
SwapOutcomeLateSlippage(acc, r, t) ==
    IF r.err = "SlippageExceeded"
    THEN [err |-> r.err, acc |-> acc, calc |-> r.calc, cpis |-> t.cpis]
    ELSE IF r.err # "Ok"
    THEN [err |-> r.err, acc |-> acc, calc |-> r.calc, cpis |-> << >>]
    ELSE [err |-> IF t.ok THEN "Ok" ELSE "TokenError",
          acc |-> IF t.ok THEN t.res.acc ELSE acc,
          calc |-> r.calc, cpis |-> t.cpis]

\* the instruction's outcome from its computation r and its transfers t; on
\* any error the runtime discards the instruction's effects
SwapOutcome(acc, r, t) ==
    IF r.err # "Ok"
    THEN [err |-> r.err, acc |-> acc, calc |-> r.calc, cpis |-> << >>]
    ELSE [err |-> IF t.ok THEN "Ok" ELSE "TokenError",
          acc |-> IF t.ok THEN t.res.acc ELSE acc,
          calc |-> r.calc, cpis |-> t.cpis]

SwapAct(acc, user, b, r) == SwapOutcome(acc, r, SwapTransfers(acc, user, b, r.calc))

\* swap(ctx, amount_in, min_amount_out)
SwapCall(acc, p, user, b, amount_in, min_amount_out) ==
    SwapAct(acc, user, b, SwapCompute(acc, p, b, amount_in, min_amount_out))

\* ------------------------------------------------------------------------
\* add_liquidity
\* ------------------------------------------------------------------------

\* 1_000_000: the share tokens of the first deposit
INITIAL_LP == <<0, 0, 1>>

\* NormalizeDown with the quotient rounded up instead of truncated
NormalizeDownRoundsUp(raw_amount, divisor) ==
    IF divisor.panic \/ divisor.val = << >> THEN [err |-> "Panic", val |-> << >>]
    ELSE [err |-> "Ok",
          val |-> BigDiv(BigAdd(raw_amount, BigSub(divisor.val, <<1>>)),
                         divisor.val)]

\* raw_amount / divisor, for divisor = 10u64.pow(token_decimals - lp_decimals)
NormalizeDown(raw_amount, divisor) ==
    IF divisor.panic \/ divisor.val = << >> THEN [err |-> "Panic", val |-> << >>]
    ELSE [err |-> "Ok", val |-> BigDiv(raw_amount, divisor.val)]

\* raw_amount * multiplier behind its overflow check, for multiplier =
\* 10u64.pow(lp_decimals - token_decimals)
NormalizeUp(raw_amount, multiplier) ==
    IF multiplier.panic \/ multiplier.val = << >> THEN [err |-> "Panic", val |-> << >>]
    ELSE IF BigGT(raw_amount, BigDiv(U64_MAX, multiplier.val))
    THEN [err |-> "ArithmeticOverflow", val |-> << >>]
    ELSE [err |-> "Ok", val |-> BigMul(raw_amount, multiplier.val)]

\* the closure normalize_amount(raw_amount, token_decimals) of add_liquidity
normalize_amount(raw_amount, token_decimals, lp_decimals, oc) ==
    IF token_decimals = lp_decimals THEN [err |-> "Ok", val |-> raw_amount]
    ELSE IF token_decimals > lp_decimals
    THEN NormalizeDown(raw_amount, Pow10U64(token_decimals - lp_decimals, oc))
    ELSE NormalizeUp(raw_amount, Pow10U64(lp_decimals - token_decimals, oc))

\* LpTokensFor without the check before the multiplication: the product
\* wraps
LpTokensForUnchecked(normalized_amount, normalized_pool, lp_supply) ==
    IF normalized_pool # << >>
    THEN [err |-> "Ok",
          val |-> BigDiv(BigMod(BigMul(normalized_amount, lp_supply), TwoPow64),
                         normalized_pool)]
    ELSE [err |-> "Ok", val |-> << >>]

\* lp_tokens_a / lp_tokens_b of add_liquidity, from normalized quantities
LpTokensFor(normalized_amount, normalized_pool, lp_supply) ==
    IF normalized_pool # << >>
    THEN IF normalized_amount # << >> /\ lp_supply # << >>
         THEN IF BigGT(normalized_amount, BigDiv(U64_MAX, lp_supply))
              THEN [err |-> "ArithmeticOverflow", val |-> << >>]
              ELSE [err |-> "Ok",
                    val |-> BigDiv(BigMul(normalized_amount, lp_supply),
                                   normalized_pool)]
         ELSE [err |-> "Ok", val |-> << >>]
    ELSE [err |-> "Ok", val |-> << >>]

AddCalc(bootstrap, reserve_a, reserve_b, lp_supply, lp_tokens_a, lp_tokens_b, lp_tokens_to_mint) ==
    [bootstrap |-> bootstrap, reserve_a |-> reserve_a, reserve_b |-> reserve_b,
     lp_supply |-> lp_supply, lp_tokens_a |-> lp_tokens_a,
     lp_tokens_b |-> lp_tokens_b, lp_tokens_to_mint |-> lp_tokens_to_mint]

\* require!(lp_tokens_to_mint >= min_lp_tokens, SlippageExceeded)
AddSlippage(bootstrap, ra, rb, lp_supply, la, lb, lp_tokens_to_mint, min_lp_tokens) ==
    [err  |-> IF BigLT(lp_tokens_to_mint, min_lp_tokens)
              THEN "SlippageExceeded" ELSE "Ok",
     calc |-> AddCalc(bootstrap, ra, rb, lp_supply, la, lb, lp_tokens_to_mint)]

\* std::cmp::min(lp_tokens_a, lp_tokens_b), given both sides
AddMin(ra, rb, lp_supply, la, lb, min_lp_tokens) ==
    IF la.err # "Ok"
    THEN [err |-> la.err,
          calc |-> AddCalc(FALSE, ra, rb, lp_supply, << >>, << >>, << >>)]
    ELSE IF lb.err # "Ok"
    THEN [err |-> lb.err,
          calc |-> AddCalc(FALSE, ra, rb, lp_supply, << >>, << >>, << >>)]
    ELSE AddSlippage(FALSE, ra, rb, lp_supply, la.val, lb.val,
                     BigMin(la.val, lb.val), min_lp_tokens)

\* the first error among the four normalizations, in the code's order
NormalizeErr(na, nb, npa, npb) ==
    IF na.err # "Ok" THEN na.err
    ELSE IF nb.err # "Ok" THEN nb.err
    ELSE IF npa.err # "Ok" THEN npa.err
    ELSE npb.err

\* the proportional branch, given the four normalized quantities
AddProportional(ra, rb, lp_supply, na, nb, npa, npb, min_lp_tokens) ==
    IF NormalizeErr(na, nb, npa, npb) # "Ok"
    THEN [err |-> NormalizeErr(na, nb, npa, npb),
          calc |-> AddCalc(FALSE, ra, rb, lp_supply, << >>, << >>, << >>)]
    ELSE AddMin(ra, rb, lp_supply,
                LpTokensFor(na.val, npa.val, lp_supply),
                LpTokensFor(nb.val, npb.val, lp_supply), min_lp_tokens)

\* AddIssue with the first deposit paid amount_a share tokens instead of the
\* fixed 1_000_000
AddIssueMintsDeposit(ra, rb, lp_supply, lp_decimals, token_a_decimals, token_b_decimals, oc, amount_a, amount_b, min_lp_tokens) ==
    IF ra = << >> /\ rb = << >>
    THEN AddSlippage(TRUE, ra, rb, << >>, << >>, << >>, amount_a, min_lp_tokens)
    ELSE AddProportional(ra, rb, lp_supply,
             normalize_amount(amount_a, token_a_decimals, lp_decimals, oc),
             normalize_amount(amount_b, token_b_decimals, lp_decimals, oc),
             normalize_amount(ra, token_a_decimals, lp_decimals, oc),
             normalize_amount(rb, token_b_decimals, lp_decimals, oc),
             min_lp_tokens)

\* lp_tokens_to_mint from the balances before the transfers (ra, rb), and
\* the slippage check that follows it
AddIssue(ra, rb, lp_supply, lp_decimals, token_a_decimals, token_b_decimals, oc, amount_a, amount_b, min_lp_tokens) ==
    IF ra = << >> /\ rb = << >>
    THEN AddSlippage(TRUE, ra, rb, << >>, << >>, << >>, INITIAL_LP, min_lp_tokens)
    ELSE AddProportional(ra, rb, lp_supply,
             normalize_amount(amount_a, token_a_decimals, lp_decimals, oc),
             normalize_amount(amount_b, token_b_decimals, lp_decimals, oc),
             normalize_amount(ra, token_a_decimals, lp_decimals, oc),
             normalize_amount(rb, token_b_decimals, lp_decimals, oc),
             min_lp_tokens)

AddCompute(acc, mnt, oc, b, amount_a, amount_b, min_lp_tokens) ==
    AddIssue(acc[b.pool_token_a].amount, acc[b.pool_token_b].amount,
             mnt[b.lp_mint].supply, mnt[b.lp_mint].decimals,
             mnt[b.token_a_mint].decimals, mnt[b.token_b_mint].decimals, oc,
             amount_a, amount_b, min_lp_tokens)

AddCpis == <<"transfer_a", "transfer_b", "mint_to">>

\* token::mint_to(lp_mint, user_lp, lp_tokens_to_mint), signed by the pool
AddMint(t2, mnt, b, lp_tokens_to_mint) ==
    IF ~t2.ok THEN AfterCpis(t2, AddCpis, 2)
    ELSE AfterCpis(TokenMintTo(t2.acc, mnt, b.lp_mint, b.user_lp, b.pool,
                               lp_tokens_to_mint), AddCpis, 3)

\* token::transfer(user_token_b -> pool_token_b, amount_b)
AddTransferB(t1, mnt, user, b, amount_b, lp_tokens_to_mint) ==
    IF ~t1.ok THEN AfterCpis(t1, AddCpis, 1)
    ELSE AddMint(TokenTransfer(t1.acc, b.user_token_b, b.pool_token_b, user,
                               amount_b), mnt, b, lp_tokens_to_mint)

\* the two transfers and the mint of add_liquidity, in the code's order
AddTransfers(acc, mnt, user, b, amount_a, amount_b, lp_tokens_to_mint) ==
    AddTransferB(TokenTransfer(acc, b.user_token_a, b.pool_token_a, user, amount_a),
                 mnt, user, b, amount_b, lp_tokens_to_mint)

\* the two balances a LiquidityAdded / LiquidityRemoved event carries: the
\* amount fields of the accounts as deserialized when the instruction began
EventBalances(acc, b) ==
    [pool_token_a_balance |-> acc[b.pool_token_a].amount,
     pool_token_b_balance |-> acc[b.pool_token_b].amount]

NoEvent == [pool_token_a_balance |-> << >>, pool_token_b_balance |-> << >>]

\* the outcome of add_liquidity / remove_liquidity from its computation r and
\* its calls into the token program t; on any error the runtime discards the
\* instruction's effects
LiqOutcome(acc, mnt, b, r, t) ==
    IF r.err # "Ok"
    THEN [err |-> r.err, acc |-> acc, mnt |-> mnt, calc |-> r.calc,
          cpis |-> << >>, event |-> NoEvent]
    ELSE IF ~t.ok
    THEN [err |-> "TokenError", acc |-> acc, mnt |-> mnt, calc |-> r.calc,
          cpis |-> t.cpis, event |-> NoEvent]
    ELSE [err |-> "Ok", acc |-> t.res.acc, mnt |-> t.res.mnt, calc |-> r.calc,
          cpis |-> t.cpis, event |-> EventBalances(acc, b)]

AddAct(acc, mnt, user, b, amount_a, amount_b, r) ==
    LiqOutcome(acc, mnt, b, r,
               AddTransfers(acc, mnt, user, b, amount_a, amount_b,
                            r.calc.lp_tokens_to_mint))

\* add_liquidity(ctx, amount_a, amount_b, min_lp_tokens)
AddLiquidityCall(acc, mnt, oc, user, b, amount_a, amount_b, min_lp_tokens) ==
    AddAct(acc, mnt, user, b, amount_a, amount_b,
           AddCompute(acc, mnt, oc, b, amount_a, amount_b, min_lp_tokens))

\* ------------------------------------------------------------------------
\* remove_liquidity
\* ------------------------------------------------------------------------

RemoveCalc(reserve_a, reserve_b, lp_supply, amount_a, amount_b) ==
    [reserve_a |-> reserve_a, reserve_b |-> reserve_b, lp_supply |-> lp_supply,
     amount_a |-> amount_a, amount_b |-> amount_b]

\* RemoveAmount without the check before the multiplication: the product
\* wraps
RemoveAmountUnchecked(lp_amount, pool_token_balance, lp_supply) ==
    [err |-> "Ok",
     val |-> BigDiv(BigMod(BigMul(lp_amount, pool_token_balance), TwoPow64),
                    lp_supply)]

\* amount_a / amount_b of remove_liquidity
RemoveAmount(lp_amount, pool_token_balance, lp_supply) ==
    IF lp_amount # << >> /\ pool_token_balance # << >>
    THEN IF BigGT(lp_amount, BigDiv(U64_MAX, pool_token_balance))
         THEN [err |-> "ArithmeticOverflow", val |-> << >>]
         ELSE [err |-> "Ok",
               val |-> BigDiv(BigMul(lp_amount, pool_token_balance), lp_supply)]
    ELSE [err |-> "Ok", val |-> << >>]

\* RemoveSlippage with amount_b never compared with min_amount_b
RemoveSlippageOnlyA(ra, rb, lp_supply, amount_a, amount_b, min_amount_a, min_amount_b) ==
    IF amount_a.err # "Ok"
    THEN [err |-> amount_a.err, calc |-> RemoveCalc(ra, rb, lp_supply, << >>, << >>)]
    ELSE IF amount_b.err # "Ok"
    THEN [err |-> amount_b.err, calc |-> RemoveCalc(ra, rb, lp_supply, << >>, << >>)]
    ELSE [err  |-> IF BigLT(amount_a.val, min_amount_a) THEN "SlippageExceeded"
                   ELSE "Ok",
          calc |-> RemoveCalc(ra, rb, lp_supply, amount_a.val, amount_b.val)]

\* the two slippage checks, amount_a first
RemoveSlippage(ra, rb, lp_supply, amount_a, amount_b, min_amount_a, min_amount_b) ==
    IF amount_a.err # "Ok"
    THEN [err |-> amount_a.err, calc |-> RemoveCalc(ra, rb, lp_supply, << >>, << >>)]
    ELSE IF amount_b.err # "Ok"
    THEN [err |-> amount_b.err, calc |-> RemoveCalc(ra, rb, lp_supply, << >>, << >>)]
    ELSE [err  |-> IF BigLT(amount_a.val, min_amount_a) THEN "SlippageExceeded"
                   ELSE IF BigLT(amount_b.val, min_amount_b) THEN "SlippageExceeded"
                   ELSE "Ok",
          calc |-> RemoveCalc(ra, rb, lp_supply, amount_a.val, amount_b.val)]

RemoveAmounts(ra, rb, lp_supply, lp_amount, min_amount_a, min_amount_b) ==
    IF lp_amount = << >>
    THEN [err |-> "InvalidAmount",
          calc |-> RemoveCalc(<< >>, << >>, << >>, << >>, << >>)]
    ELSE IF lp_supply = << >>
    THEN [err |-> "InvalidAmount",
          calc |-> RemoveCalc(ra, rb, lp_supply, << >>, << >>)]
    ELSE RemoveSlippage(ra, rb, lp_supply,
                        RemoveAmount(lp_amount, ra, lp_supply),
                        RemoveAmount(lp_amount, rb, lp_supply),
                        min_amount_a, min_amount_b)

\* remove_liquidity up to and including the slippage checks
RemoveCompute(acc, mnt, b, lp_amount, min_amount_a, min_amount_b) ==
    RemoveAmounts(acc[b.pool_token_a].amount, acc[b.pool_token_b].amount,
                  mnt[b.lp_mint].supply, lp_amount, min_amount_a, min_amount_b)

RemoveCpis == <<"transfer_a", "transfer_b", "burn">>

\* token::burn(lp_mint, user_lp, lp_amount), signed by the user
RemoveBurn(t2, mnt, user, b, lp_amount) ==
    IF ~t2.ok THEN AfterCpis(t2, RemoveCpis, 2)
    ELSE AfterCpis(TokenBurn(t2.acc, mnt, b.lp_mint, b.user_lp, user, lp_amount),
                   RemoveCpis, 3)

\* token::transfer(pool_token_b -> user_token_b, amount_b), signed by the pool
RemoveTransferB(t1, mnt, user, b, lp_amount, amount_b) ==
    IF ~t1.ok THEN AfterCpis(t1, RemoveCpis, 1)
    ELSE RemoveBurn(TokenTransfer(t1.acc, b.pool_token_b, b.user_token_b, b.pool,
                                  amount_b), mnt, user, b, lp_amount)

\* the two transfers and the burn of remove_liquidity, in the code's order
RemoveTransfers(acc, mnt, user, b, lp_amount, amount_a, amount_b) ==
    RemoveTransferB(TokenTransfer(acc, b.pool_token_a, b.user_token_a, b.pool,
                                  amount_a), mnt, user, b, lp_amount, amount_b)

RemoveAct(acc, mnt, user, b, lp_amount, r) ==
    LiqOutcome(acc, mnt, b, r,
               RemoveTransfers(acc, mnt, user, b, lp_amount, r.calc.amount_a,
                               r.calc.amount_b))

\* remove_liquidity(ctx, lp_amount, min_amount_a, min_amount_b)
RemoveLiquidityCall(acc, mnt, user, b, lp_amount, min_amount_a, min_amount_b) ==
    RemoveAct(acc, mnt, user, b, lp_amount,
              RemoveCompute(acc, mnt, b, lp_amount, min_amount_a, min_amount_b))

\* ------------------------------------------------------------------------
\* initialize_pool
\* ------------------------------------------------------------------------

NoPool ==
    [initialized |-> FALSE, token_a_mint |-> "", token_b_mint |-> "",
     token_a_account |-> "", token_b_account |-> "", lp_mint |-> "",
     fee_numerator |-> << >>, fee_denominator |-> << >>, authority |-> ""]

\* the addresses a Pool account can have, one per ordered pair of mints
PoolAddrs == {PoolPda(a, b) : a \in MintIds, b \in MintIds}

\* no Pool account exists
NoPools == [a \in PoolAddrs |-> NoPool]

\* initialize_pool(ctx, fee_numerator, fee_denominator) for the Pool account
\* p at the address derived from the two mints; the account constraint
\* `init` refuses an account that already exists.  The event's fee is the
\* f64 quotient of the two arguments: 0 / 0 is NaN, which the event's
\* serialization refuses, and emit! panics; n / 0 for n > 0 is infinity and
\* is emitted.  emitted: whether emit!(PoolCreatedEvent) was completed.
InitializePoolCall(p, b, fee_numerator, fee_denominator) ==
    IF p.initialized THEN [err |-> "AccountInUse", emitted |-> FALSE, pool |-> p]
    ELSE IF fee_numerator = << >> /\ fee_denominator = << >>
    THEN [err |-> "Panic", emitted |-> FALSE, pool |-> p]
    ELSE [err |-> "Ok",
          emitted |-> TRUE,
          pool |-> [initialized |-> TRUE,
                    token_a_mint |-> b.token_a_mint,
                    token_b_mint |-> b.token_b_mint,
                    token_a_account |-> b.token_a_account,
                    token_b_account |-> b.token_b_account,
                    lp_mint |-> b.lp_mint,
                    fee_numerator |-> fee_numerator,
                    fee_denominator |-> fee_denominator,
                    authority |-> b.authority]]

\* ------------------------------------------------------------------------
\* State
\* ------------------------------------------------------------------------

VARIABLES
    pools,            \* the Pool accounts: address -> Pool
    accounts,         \* token accounts: id -> [mint, owner, amount]
    mints,            \* mints: id -> [supply, decimals, mint_authority]
    overflow_checks,  \* whether the build panics on integer overflow
    steps,            \* instructions processed so far
    last              \* the instruction processed last and its outcome

vars == <<pools, accounts, mints, overflow_checks, steps, last>>

\* ------------------------------------------------------------------------
\* Bounds and inputs
\* ------------------------------------------------------------------------

MaxSteps == 3

M1  == <<0, 0, 1>>            \* 1_000_000
M2  == <<0, 0, 2>>            \* 2_000_000
K10 == <<0, 10>>              \* 10_000

\* what each end-user account holds before the pool exists
UserFunds ==
    [usrA |-> M2, usrB |-> M2, usrC |-> M1, altA |-> <<500>>, altC |-> <<500>>]

DecimalChoices ==
    { [mintA |-> 6, mintB |-> 6, mintC |-> 6, mintLP |-> 6],
      [mintA |-> 7, mintB |-> 6, mintC |-> 6, mintLP |-> 6] }

BuildChoices == {TRUE}

InitAccounts(funds) ==
    [a \in AccountIds |->
        [mint  |-> CASE a \in {"resA", "usrA", "feeA", "altA"} -> "mintA"
                     [] a \in {"resB", "usrB", "feeB"} -> "mintB"
                     [] a \in {"usrC", "altC", "feeC"} -> "mintC"
                     [] OTHER -> "mintLP",
         owner |-> CASE a \in {"resA", "resB"} -> PoolPda("mintA", "mintB")
                     [] a \in {"feeA", "feeB", "feeC"} -> FeeOwner
                     [] OTHER -> "alice",
         amount |-> IF a \in DOMAIN funds THEN funds[a] ELSE << >>]]

RECURSIVE SumAmounts(_, _)
SumOne(acc, ids, one) == BigAdd(acc[one].amount, SumAmounts(acc, ids \ {one}))

SumAmounts(acc, ids) ==
    IF ids = {} THEN << >> ELSE SumOne(acc, ids, CHOOSE i \in ids : TRUE)

\* all units of a mint held in token accounts
Held(acc, mint) == SumAmounts(acc, {a \in AccountIds : acc[a].mint = mint})

InitMints(acc, decimals) ==
    [m \in MintIds |->
        [supply |-> Held(acc, m),
         decimals |-> decimals[m],
         mint_authority |-> IF m = "mintLP" THEN PoolPda("mintA", "mintB")
                            ELSE "issuer"]]

NoLast ==
    [op |-> "none", user |-> "", b |-> << >>, args |-> << >>, err |-> "Ok",
     calc |-> << >>, cpis |-> << >>, event |-> NoEvent,
     prePool |-> NoPool, prePools |-> NoPools, pre |-> << >>,
     preMints |-> << >>]

\* the accounts a caller may name, per instruction
HonestInit ==
    [token_a_mint |-> "mintA", token_b_mint |-> "mintB",
     token_a_account |-> "resA", token_b_account |-> "resB",
     lp_mint |-> "mintLP", authority |-> FeeOwner]

InitBindings ==
    { HonestInit,
      [HonestInit EXCEPT !.token_a_account = "altA"],
      \* one asset named as both assets of the pair
      [HonestInit EXCEPT !.token_b_mint = "mintA", !.token_b_account = "altA"] }

\* <<fee_numerator, fee_denominator>>: 0/1000, 3/1000, 3/0, 7/3, 0/0
FeeChoices ==
    { <<(<< >>), <<0, 1>>>>, <<(<<3>>), <<0, 1>>>>, <<(<<3>>), (<< >>)>>,
      <<(<<7>>), <<3>>>>, <<(<< >>), (<< >>)>> }

HonestLiq ==
    [token_a_mint |-> "mintA", token_b_mint |-> "mintB",
     user_token_a |-> "usrA", user_token_b |-> "usrB",
     pool_token_a |-> "resA", pool_token_b |-> "resB",
     lp_mint |-> "mintLP", user_lp |-> "usrLP",
     pool |-> PoolPda("mintA", "mintB")]

AddBindings ==
    { HonestLiq,
      \* an account of the depositor's own named as reserve A
      [HonestLiq EXCEPT !.pool_token_a = "altA"],
      \* the Pool account of another pair, over the same token accounts
      [HonestLiq EXCEPT !.pool = PoolPda("mintA", "mintA")] }

\* <<amount_a, amount_b, min_lp_tokens>>
AddArgs ==
    { <<M1, M1, (<< >>)>>,
      <<(<<19>>), <<19>>, M1>>,
      <<(<<10>>), <<19>>, (<< >>)>>,
      <<(<<10>>), <<19>>, <<1, 0, 1>>>>,
      <<(<< >>), (<< >>), (<< >>)>> }

RemoveBindings ==
    { HonestLiq,
      \* asset A named as the share mint, the withdrawer's own A account as
      \* the share account
      [HonestLiq EXCEPT !.lp_mint = "mintA", !.user_lp = "usrA"],
      \* the Pool account of another pair, over the same token accounts
      [HonestLiq EXCEPT !.pool = PoolPda("mintA", "mintA")] }

\* <<lp_amount, min_amount_a, min_amount_b>>
RemoveArgs ==
    { <<M1, (<< >>), (<< >>)>>,
      <<(<<0, 400>>), (<< >>), (<< >>)>>,
      <<(<< >>), (<< >>), (<< >>)>>,
      <<M1, <<0, 0, 3>>, (<< >>)>>,
      <<M1, (<< >>), <<0, 0, 3>>>>,
      <<U64_MAX, (<< >>), (<< >>)>> }

HonestSwapAB ==
    [token_in_mint |-> "mintA", token_out_mint |-> "mintB",
     user_token_in |-> "usrA", user_token_out |-> "usrB",
     pool_token_in |-> "resA", pool_token_out |-> "resB",
     owner_token_account |-> "feeA", pool |-> PoolPda("mintA", "mintB")]

HonestSwapBA ==
    [token_in_mint |-> "mintB", token_out_mint |-> "mintA",
     user_token_in |-> "usrB", user_token_out |-> "usrA",
     pool_token_in |-> "resB", pool_token_out |-> "resA",
     owner_token_account |-> "feeB", pool |-> PoolPda("mintA", "mintB")]

SwapBindings ==
    { HonestSwapAB,
      HonestSwapBA,
      \* an account of the trader's own named as the input reserve
      [HonestSwapAB EXCEPT !.pool_token_in = "altA"],
      \* an asset outside the pool's pair as the input asset
      [HonestSwapAB EXCEPT !.token_in_mint = "mintC", !.user_token_in = "usrC",
                           !.pool_token_in = "altC",
                           !.owner_token_account = "feeC"],
      \* one reserve as input and output
      [HonestSwapAB EXCEPT !.token_out_mint = "mintA", !.user_token_out = "usrA",
                           !.pool_token_out = "resA"],
      \* the Pool account of another pair, over the same token accounts
      [HonestSwapAB EXCEPT !.pool = PoolPda("mintA", "mintA")] }

\* <<amount_in, min_amount_out>>
SwapArgs ==
    { <<K10, <<871, 9>>>>,
      <<K10, <<872, 9>>>>,
      <<(<< >>), (<< >>)>>,
      <<(<<7>>), (<< >>)>>,
      <<U64_MAX, (<< >>)>> }

\* ------------------------------------------------------------------------
\* Actions: one per instruction.  An instruction that fails leaves pool,
\* accounts and mints as they were (the runtime discards its effects).
\* ------------------------------------------------------------------------

\* A failed instruction changes nothing but `last`, so what can follow it is
\* what can follow the state before it: only states reached by a successful
\* instruction are extended.
CanCall == steps < MaxSteps /\ last.err = "Ok"

\* the address of the Pool account an instruction runs on: derived from the
\* two mints for initialize_pool, the account the caller names otherwise
PoolAddress(op, b) ==
    IF op = "initialize_pool" THEN PoolPda(b.token_a_mint, b.token_b_mint)
    ELSE b.pool

Record(op, user, b, args, err, calc, cpis, event) ==
    [op |-> op, user |-> user, b |-> b, args |-> args, err |-> err,
     calc |-> calc, cpis |-> cpis, event |-> event,
     prePool |-> pools[PoolAddress(op, b)], prePools |-> pools,
     pre |-> accounts, preMints |-> mints]

CommitInit(user, b, args, r) ==
    /\ pools' = [pools EXCEPT ![PoolAddress("initialize_pool", b)] = r.pool]
    /\ last' = Record("initialize_pool", user, b, args, r.err,
                      [emitted |-> r.emitted], << >>, NoEvent)
    /\ steps' = steps + 1
    /\ UNCHANGED <<accounts, mints, overflow_checks>>

CommitLiq(op, user, b, args, r) ==
    /\ accounts' = r.acc
    /\ mints' = r.mnt
    /\ last' = Record(op, user, b, args, r.err, r.calc, r.cpis, r.event)
    /\ steps' = steps + 1
    /\ UNCHANGED <<pools, overflow_checks>>

CommitSwap(user, b, args, r) ==
    /\ accounts' = r.acc
    /\ last' = Record("swap", user, b, args, r.err, r.calc, r.cpis, NoEvent)
    /\ steps' = steps + 1
    /\ UNCHANGED <<pools, mints, overflow_checks>>

InitializePool(user, b, fee_numerator, fee_denominator) ==
    /\ CanCall
    /\ CommitInit(user, b, <<fee_numerator, fee_denominator>>,
                  InitializePoolCall(pools[PoolAddress("initialize_pool", b)], b,
                                     fee_numerator, fee_denominator))

AddLiquidity(user, b, amount_a, amount_b, min_lp_tokens) ==
    /\ CanCall
    /\ pools[b.pool].initialized
    /\ CommitLiq("add_liquidity", user, b, <<amount_a, amount_b, min_lp_tokens>>,
                 AddLiquidityCall(accounts, mints, overflow_checks, user, b,
                                  amount_a, amount_b, min_lp_tokens))

Swap(user, b, amount_in, min_amount_out) ==
    /\ CanCall
    /\ pools[b.pool].initialized
    /\ CommitSwap(user, b, <<amount_in, min_amount_out>>,
                  SwapCall(accounts, pools[b.pool], user, b, amount_in,
                           min_amount_out))

RemoveLiquidity(user, b, lp_amount, min_amount_a, min_amount_b) ==
    /\ CanCall
    /\ pools[b.pool].initialized
    /\ CommitLiq("remove_liquidity", user, b,
                 <<lp_amount, min_amount_a, min_amount_b>>,
                 RemoveLiquidityCall(accounts, mints, user, b, lp_amount,
                                     min_amount_a, min_amount_b))

\* ------------------------------------------------------------------------
\* Spec: the program from before the pool exists
\* ------------------------------------------------------------------------

Init ==
    /\ pools = NoPools
    /\ accounts = InitAccounts(UserFunds)
    /\ \E d \in DecimalChoices : mints = InitMints(InitAccounts(UserFunds), d)
    /\ overflow_checks \in BuildChoices
    /\ steps = 0
    /\ last = NoLast

Next ==
    \/ \E u \in Users, b \in InitBindings, f \in FeeChoices :
          InitializePool(u, b, f[1], f[2])
    \/ \E u \in Users, b \in AddBindings, a \in AddArgs :
          AddLiquidity(u, b, a[1], a[2], a[3])
    \/ \E u \in Users, b \in SwapBindings, a \in SwapArgs :
          Swap(u, b, a[1], a[2])
    \/ \E u \in Users, b \in RemoveBindings, a \in RemoveArgs :
          RemoveLiquidity(u, b, a[1], a[2], a[3])

Spec == Init /\ [][Next]_vars

\* ------------------------------------------------------------------------
\* SpecSwap: swaps on a funded pool, with amounts and reserves at the edges
\* of the u64 range.  Its initial states are the states the program is in
\* after initialize_pool and a first add_liquidity.
\* ------------------------------------------------------------------------

MaxSwapSteps == 2

P2_20 == <<576, 48, 1>>                          \* 2^20
P2_40 == <<776, 627, 511, 99, 1>>                \* 2^40
P2_41 == <<552, 255, 23, 199, 2>>                \* 2^41
P2_50 == <<624, 842, 906, 899, 125, 1>>          \* 2^50
P2_62 == <<904, 387, 427, 18, 686, 611, 4>>      \* 2^62
P2_63 == <<808, 775, 854, 36, 372, 223, 9>>      \* 2^63

SwapFunds ==
    [usrA |-> P2_63, usrB |-> P2_63, usrC |-> M1, altA |-> <<500>>,
     altC |-> <<500>>]

\* <<amount_a, amount_b>> of the first deposit
SwapDeposits ==
    { <<M1, M1>>, <<M1, P2_62>>, <<P2_40, P2_50>>, <<(<<1>>), <<1>>>>,
      <<P2_62, P2_62>> }

\* <<fee_numerator, fee_denominator>>: 0/1000, 3/1000, 2^40/2^41
SwapFeeChoices == { <<(<< >>), <<0, 1>>>>, <<(<<3>>), <<0, 1>>>>, <<P2_40, P2_41>> }

\* <<amount_in, min_amount_out>>
SwapMathArgs ==
    { <<(<<10>>), (<< >>)>>, <<K10, (<< >>)>>, <<P2_20, (<< >>)>>,
      <<P2_40, (<< >>)>>, <<U64_MAX, (<< >>)>>, <<(<< >>), (<< >>)>> }

Funded(acc0, mnt0, p, args, r) ==
    /\ r.err = "Ok"
    /\ pools = [NoPools EXCEPT ![HonestLiq.pool] = p]
    /\ accounts = r.acc
    /\ mints = r.mnt
    /\ last = [op |-> "add_liquidity", user |-> "alice", b |-> HonestLiq,
               args |-> args, err |-> r.err, calc |-> r.calc, cpis |-> r.cpis,
               event |-> r.event, prePool |-> p,
               prePools |-> [NoPools EXCEPT ![HonestLiq.pool] = p],
               pre |-> acc0, preMints |-> mnt0]

FundedFrom(acc0, mnt0, oc, f, d) ==
    Funded(acc0, mnt0, InitializePoolCall(NoPool, HonestInit, f[1], f[2]).pool,
           <<d[1], d[2], (<< >>)>>,
           AddLiquidityCall(acc0, mnt0, oc, "alice", HonestLiq, d[1], d[2], << >>))

SixDecimals == [mintA |-> 6, mintB |-> 6, mintC |-> 6, mintLP |-> 6]

InitSwap ==
    /\ overflow_checks \in BuildChoices
    /\ steps = 0
    /\ \E f \in SwapFeeChoices, d \in SwapDeposits :
          FundedFrom(InitAccounts(SwapFunds),
                     InitMints(InitAccounts(SwapFunds), SixDecimals),
                     overflow_checks, f, d)

SwapStep(user, b, amount_in, min_amount_out) ==
    /\ steps < MaxSwapSteps
    /\ last.err = "Ok"
    /\ pools[b.pool].initialized
    /\ CommitSwap(user, b, <<amount_in, min_amount_out>>,
                  SwapCall(accounts, pools[b.pool], user, b, amount_in,
                           min_amount_out))

NextSwap ==
    \E u \in Users, b \in SwapBindings, a \in SwapMathArgs :
        SwapStep(u, b, a[1], a[2])

SpecSwap == InitSwap /\ [][NextSwap]_vars

\* ------------------------------------------------------------------------
\* SpecAdd: deposits into a funded pool, over mints of different decimals,
\* amounts up to the edge of the u64 range and both builds.  Its initial
\* states are the states the program is in after initialize_pool and a
\* first add_liquidity.
\* ------------------------------------------------------------------------

MaxAddSteps == 1

\* decimals of asset A, asset B and the share token
AddDecimalChoices ==
    { [mintA |-> 6, mintB |-> 6, mintC |-> 6, mintLP |-> 6],
      [mintA |-> 7, mintB |-> 6, mintC |-> 6, mintLP |-> 6],
      [mintA |-> 6, mintB |-> 6, mintC |-> 6, mintLP |-> 9],
      [mintA |-> 6, mintB |-> 9, mintC |-> 6, mintLP |-> 26],
      [mintA |-> 6, mintB |-> 6, mintC |-> 6, mintLP |-> 70] }

\* <<amount_a, amount_b>> of the first deposit
AddDeposits ==
    { <<(<<30>>), <<2>>>>, <<(<<5>>), <<5>>>>, <<M1, M1>>, <<P2_40, P2_40>>,
      <<P2_62, (<<1>>)>> }

\* <<amount_a, amount_b, min_lp_tokens>>
AddMathArgs ==
    { <<(<<15>>), <<1>>, (<< >>)>>, <<(<<1>>), <<1>>, (<< >>)>>,
      <<M1, M1, (<< >>)>>, <<P2_20, P2_20, (<< >>)>>,
      <<P2_50, P2_50, (<< >>)>>, <<P2_62, (<<1>>), (<< >>)>>,
      <<(<<3>>), P2_62, (<< >>)>>, <<U64_MAX, U64_MAX, (<< >>)>>,
      <<(<<1>>), (<< >>), (<< >>)>> }

InitAdd ==
    /\ overflow_checks \in BOOLEAN
    /\ steps = 0
    /\ \E dec \in AddDecimalChoices, d \in AddDeposits :
          FundedFrom(InitAccounts(SwapFunds),
                     InitMints(InitAccounts(SwapFunds), dec),
                     overflow_checks, <<(<< >>), <<0, 1>>>>, d)

AddStep(user, b, amount_a, amount_b, min_lp_tokens) ==
    /\ steps < MaxAddSteps
    /\ last.err = "Ok"
    /\ pools[b.pool].initialized
    /\ CommitLiq("add_liquidity", user, b, <<amount_a, amount_b, min_lp_tokens>>,
                 AddLiquidityCall(accounts, mints, overflow_checks, user, b,
                                  amount_a, amount_b, min_lp_tokens))

NextAdd ==
    \E u \in Users, a \in AddMathArgs : AddStep(u, HonestLiq, a[1], a[2], a[3])

SpecAdd == InitAdd /\ [][NextAdd]_vars

\* ------------------------------------------------------------------------
\* SpecNorm: normalize_amount applied to an amount from one decimal count
\* to another and to its result the other way round.  `last` holds the
\* amount, the two decimal counts and the two results.
\* ------------------------------------------------------------------------

NormDecimals == {0, 3, 6, 7, 9, 19, 26, 70}

NormAmounts ==
    { << >>, <<1>>, <<7>>, <<999>>, <<0, 1>>, <<345, 12>>, M1, <<1, 0, 1>>,
      P2_40, <<73, 744, 446, 18>>, P2_62, U64_MAX }

NoResult == [err |-> "none", val |-> << >>]

InitNorm ==
    /\ pools = NoPools
    /\ accounts = InitAccounts(UserFunds)
    /\ mints = InitMints(InitAccounts(UserFunds), SixDecimals)
    /\ overflow_checks \in BOOLEAN
    /\ steps = 0
    /\ \E x \in NormAmounts, d1 \in NormDecimals, d2 \in NormDecimals :
          last = [op |-> "normalize_amount", x |-> x, d1 |-> d1, d2 |-> d2,
                  there |-> NoResult, back |-> NoResult, err |-> "Ok"]

\* normalize_amount(x, d1) with the share token at d2 decimals
NormalizeThere ==
    /\ steps = 0
    /\ last' = [last EXCEPT
                  !.there = normalize_amount(last.x, last.d1, last.d2,
                                             overflow_checks)]
    /\ steps' = 1
    /\ UNCHANGED <<pools, accounts, mints, overflow_checks>>

\* normalize_amount(result, d2) with the share token at d1 decimals
NormalizeBack ==
    /\ steps = 1
    /\ last.there.err = "Ok"
    /\ last' = [last EXCEPT
                  !.back = normalize_amount(last.there.val, last.d2, last.d1,
                                            overflow_checks)]
    /\ steps' = 2
    /\ UNCHANGED <<pools, accounts, mints, overflow_checks>>

NextNorm == NormalizeThere \/ NormalizeBack

SpecNorm == InitNorm /\ [][NextNorm]_vars

\* ------------------------------------------------------------------------
\* Properties
\* ------------------------------------------------------------------------

\* the balance an account had before / has after the last instruction
\* the address of the Pool account the last instruction ran on
LastPool == PoolAddress(last.op, last.b)

PreBal(a)  == last.pre[a].amount
PostBal(a) == accounts[a].amount

\* q = floor(n / d), stated without division
IsFloor(q, n, d) ==
    /\ BigLE(BigMul(q, d), n)
    /\ BigLT(n, BigMul(BigAdd(q, <<1>>), d))

SwapTokenAccounts(b) ==
    {b.user_token_in, b.user_token_out, b.pool_token_in, b.pool_token_out}

\* C1: after every successful swap on a pool with fee_numerator = 0, on
\* either computation path and in either direction,
\* (reserve_in + amount_in_after_fee) * (reserve_out - amount_out) >=
\* reserve_in * reserve_out as exact integers; and when the four token
\* accounts of the call are four different accounts, the product of the
\* balances of the two accounts named as reserves is not smaller after the
\* swap than before it.
C1_ProductNeverDecreases ==
    (last.op = "swap" /\ last.err = "Ok" /\ last.prePool.fee_numerator = << >>) =>
        /\ BigLE(last.calc.amount_out, last.calc.reserve_out)
        /\ BigGE(BigMul(BigAdd(last.calc.reserve_in, last.calc.amount_in_after_fee),
                        BigSub(last.calc.reserve_out, last.calc.amount_out)),
                 BigMul(last.calc.reserve_in, last.calc.reserve_out))
        /\ Cardinality(SwapTokenAccounts(last.b)) = 4 =>
              BigGE(BigMul(PostBal(last.b.pool_token_in),
                           PostBal(last.b.pool_token_out)),
                    BigMul(PreBal(last.b.pool_token_in),
                           PreBal(last.b.pool_token_out)))

\* a successful fee-free swap on the scaled path that pays out
C1_Witness ==
    /\ last.op = "swap" /\ last.err = "Ok"
    /\ last.prePool.fee_numerator = << >>
    /\ last.b = HonestSwapAB
    /\ last.calc.path = "scaled"
    /\ last.calc.amount_out # << >>

C5_Case ==
    /\ last.op = "swap"
    /\ last.args[1] # << >>
    /\ last.prePool.fee_denominator # << >>
    /\ BigLE(last.prePool.fee_numerator, last.prePool.fee_denominator)
    /\ PreBal(last.b.pool_token_in) # << >>
    /\ PreBal(last.b.pool_token_out) # << >>

C5_Priced ==
    IF ~IsU64(BigAdd(PreBal(last.b.pool_token_in), last.calc.amount_in_after_fee))
    THEN last.err = "ArithmeticOverflow"
    ELSE IsU64(BigMul(PreBal(last.b.pool_token_out), last.calc.amount_in_after_fee)) =>
            /\ IsFloor(last.calc.amount_out,
                       BigMul(PreBal(last.b.pool_token_out),
                              last.calc.amount_in_after_fee),
                       BigAdd(PreBal(last.b.pool_token_in),
                              last.calc.amount_in_after_fee))
            /\ last.err \in {"Ok", "SlippageExceeded", "TokenError"}
            /\ last.err = "SlippageExceeded" <=>
                  BigLT(last.calc.amount_out, last.args[2])

C5_Scenario ==
    /\ last.op = "swap"
    /\ PreBal(last.b.pool_token_in) = M1
    /\ PreBal(last.b.pool_token_out) = M1
    /\ last.prePool.fee_numerator = <<3>>
    /\ last.prePool.fee_denominator = <<0, 1>>
    /\ last.args[1] = K10

\* C5: for a swap with amount_in > 0, fee_denominator > 0, fee_numerator <=
\* fee_denominator and both reserves non-zero: an overflowing fee product is
\* ArithmeticOverflow; otherwise fee = floor(amount_in * fee_numerator /
\* fee_denominator) and amount_in_after_fee = amount_in - fee; an overflowing
\* reserve_in + amount_in_after_fee is ArithmeticOverflow; otherwise, when
\* reserve_out * amount_in_after_fee is within u64, amount_out =
\* floor(reserve_out * amount_in_after_fee / (reserve_in +
\* amount_in_after_fee)).  Reserves 1_000_000 / 1_000_000, fee 3/1000 and
\* amount_in 10_000 give 30, 9_970 and 9_871.
C5_SwapFormula ==
    /\ C5_Case =>
          IF ~IsU64(BigMul(last.args[1], last.prePool.fee_numerator))
          THEN last.err = "ArithmeticOverflow"
          ELSE /\ IsFloor(last.calc.fee,
                          BigMul(last.args[1], last.prePool.fee_numerator),
                          last.prePool.fee_denominator)
               /\ BigAdd(last.calc.amount_in_after_fee, last.calc.fee) = last.args[1]
               /\ C5_Priced
    /\ C5_Scenario =>
          /\ last.calc.fee = <<30>>
          /\ last.calc.amount_in_after_fee = <<970, 9>>
          /\ last.calc.amount_out = <<871, 9>>

\* the scenario swap, carried out
C5_Witness == C5_Scenario /\ last.err = "Ok" /\ last.calc.amount_out = <<871, 9>>

\* C6: whenever reserve_out > MAX / amount_in_after_fee the swap takes the
\* scaled fallback and amount_out = floor(reserve_out *
\* floor(amount_in_after_fee * 10^9 / (reserve_in + amount_in_after_fee)) /
\* 10^9), every product being its true mathematical value.
C6_ScaledIsExact ==
    ( /\ last.op = "swap"
      /\ last.err \in {"Ok", "SlippageExceeded", "TokenError"}
      /\ last.calc.amount_in_after_fee # << >>
      /\ BigGT(last.calc.reserve_out,
               BigDiv(U64_MAX, last.calc.amount_in_after_fee)) ) =>
        /\ last.calc.path = "scaled"
        /\ last.calc.amount_out =
              BigDiv(BigMul(last.calc.reserve_out,
                            BigDiv(BigMul(last.calc.amount_in_after_fee, SCALE),
                                   BigAdd(last.calc.reserve_in,
                                          last.calc.amount_in_after_fee))),
                     SCALE)

\* the instruction got as far as its slippage check
Priced == last.err \in {"Ok", "SlippageExceeded", "TokenError"}

C2_BelowFloor ==
    \/ /\ last.op = "add_liquidity" /\ Priced
       /\ BigLT(last.calc.lp_tokens_to_mint, last.args[3])
    \/ /\ last.op = "swap" /\ Priced
       /\ BigLT(last.calc.amount_out, last.args[2])
    \/ /\ last.op = "remove_liquidity" /\ Priced
       /\ \/ BigLT(last.calc.amount_a, last.args[2])
          \/ BigLT(last.calc.amount_b, last.args[3])

\* C2: an add_liquidity, swap or remove_liquidity whose computed amount is
\* below the caller's floor (for remove_liquidity: amount_a below
\* min_amount_a, or amount_b below min_amount_b) fails with SlippageExceeded,
\* and a call that failed with SlippageExceeded called nothing in the token
\* program and left every token account, every mint's supply and the Pool
\* account as they were.
C2_SlippageChangesNothing ==
    /\ C2_BelowFloor => last.err = "SlippageExceeded"
    /\ last.err = "SlippageExceeded" =>
          /\ C2_BelowFloor
          /\ last.cpis = << >>
          /\ accounts = last.pre
          /\ mints = last.preMints
          /\ pools = last.prePools

\* a remove_liquidity refused for amount_b alone, on a funded pool
C2_Witness ==
    /\ last.op = "remove_liquidity" /\ last.err = "SlippageExceeded"
    /\ BigGE(last.calc.amount_a, last.args[2])
    /\ BigLT(last.calc.amount_b, last.args[3])
    /\ last.calc.amount_b # << >>

\* the call names the reserve accounts recorded in the Pool account
NamesRecordedReserves ==
    /\ last.b.pool_token_a = last.prePool.token_a_account
    /\ last.b.pool_token_b = last.prePool.token_b_account
    /\ last.b.token_a_mint = last.prePool.token_a_mint
    /\ last.b.token_b_mint = last.prePool.token_b_mint
    /\ last.b.lp_mint = last.prePool.lp_mint

\* C3: a successful add_liquidity(amount_a, amount_b) on a pool with share
\* supply S > 0 and reserves reserve_a, reserve_b > 0 mints m share tokens
\* with m * reserve_a <= amount_a * S and m * reserve_b <= amount_b * S,
\* whatever the decimals of the assets and of the share token.
C3_NoOverIssue ==
    ( /\ last.op = "add_liquidity" /\ last.err = "Ok"
      /\ NamesRecordedReserves
      /\ last.calc.lp_supply # << >>
      /\ last.calc.reserve_a # << >>
      /\ last.calc.reserve_b # << >> ) =>
        /\ BigLE(BigMul(last.calc.lp_tokens_to_mint, last.calc.reserve_a),
                 BigMul(last.args[1], last.calc.lp_supply))
        /\ BigLE(BigMul(last.calc.lp_tokens_to_mint, last.calc.reserve_b),
                 BigMul(last.args[2], last.calc.lp_supply))

\* the accounts the last instruction treated as pool reserves
NamedReserves ==
    IF last.op \in {"add_liquidity", "remove_liquidity"}
    THEN {last.b.pool_token_a, last.b.pool_token_b}
    ELSE IF last.op = "swap"
    THEN {last.b.pool_token_in, last.b.pool_token_out}
    ELSE {}

\* C4: the two reserve accounts recorded in the Pool account are owned by
\* the pool, never by an end user; and an add_liquidity, swap or
\* remove_liquidity that names as a reserve an account other than those two
\* mints no share tokens and moves no funds.
C4_ReservesArePoolControlled ==
    /\ \A a \in PoolAddrs : pools[a].initialized =>
          /\ accounts[pools[a].token_a_account].owner = a
          /\ accounts[pools[a].token_b_account].owner = a
    /\ ~(NamedReserves \subseteq
            {last.prePool.token_a_account, last.prePool.token_b_account}) =>
          /\ accounts = last.pre
          /\ mints = last.preMints

LiqAccounts(b) ==
    {b.user_token_a, b.user_token_b, b.pool_token_a, b.pool_token_b, b.user_lp}

\* the token program accepts the deposit: the depositor owns and funds
\* both source accounts, each pair of accounts is of one mint, and the
\* share mint is the pool's to mint from
C7_DepositAccepted ==
    /\ Cardinality(LiqAccounts(last.b)) = 5
    /\ last.pre[last.b.user_token_a].owner = last.user
    /\ last.pre[last.b.user_token_b].owner = last.user
    /\ last.pre[last.b.user_token_a].mint = last.pre[last.b.pool_token_a].mint
    /\ last.pre[last.b.user_token_b].mint = last.pre[last.b.pool_token_b].mint
    /\ last.pre[last.b.user_lp].mint = last.b.lp_mint
    /\ last.preMints[last.b.lp_mint].mint_authority = LastPool
    /\ BigLE(last.args[1], PreBal(last.b.user_token_a))
    /\ BigLE(last.args[2], PreBal(last.b.user_token_b))

C7_Case ==
    /\ last.op = "add_liquidity"
    /\ PreBal(last.b.pool_token_a) = << >>
    /\ PreBal(last.b.pool_token_b) = << >>
    /\ last.args[1] # << >> /\ last.args[2] # << >>
    /\ BigLE(last.args[3], INITIAL_LP)

\* C7: an add_liquidity made when both reserves are zero, with positive
\* amount_a and amount_b and min_lp_tokens <= 1_000_000, computes exactly
\* 1_000_000 share tokens whatever the amounts and the decimals, and fails
\* only if the token program refuses a transfer or the mint; when the
\* depositor holds the amounts it succeeds, the depositor's share balance
\* and the share supply grow by exactly 1_000_000 and the two reserves by
\* exactly amount_a and amount_b.
C7_Bootstrap ==
    C7_Case =>
        /\ last.calc.bootstrap
        /\ last.calc.lp_tokens_to_mint = <<0, 0, 1>>
        /\ last.err \in {"Ok", "TokenError"}
        /\ C7_DepositAccepted =>
              /\ last.err = "Ok"
              /\ last.cpis = <<"transfer_a", "transfer_b", "mint_to">>
              /\ PostBal(last.b.pool_token_a) = last.args[1]
              /\ PostBal(last.b.pool_token_b) = last.args[2]
              /\ PostBal(last.b.user_lp) =
                    BigAdd(PreBal(last.b.user_lp), <<0, 0, 1>>)
              /\ mints[last.b.lp_mint].supply =
                    BigAdd(last.preMints[last.b.lp_mint].supply, <<0, 0, 1>>)
              /\ BigAdd(PostBal(last.b.user_token_a), last.args[1]) =
                    PreBal(last.b.user_token_a)
              /\ BigAdd(PostBal(last.b.user_token_b), last.args[2]) =
                    PreBal(last.b.user_token_b)

\* a first deposit of 19 / 19 units, with an asset of 7 decimals
C7_Witness ==
    /\ C7_Case /\ C7_DepositAccepted /\ last.err = "Ok"
    /\ last.args[1] = <<19>>
    /\ last.preMints[last.b.token_a_mint].decimals = 7
    /\ PostBal(last.b.user_lp) = <<0, 0, 1>>

C8_Case ==
    /\ last.op = "remove_liquidity"
    /\ last.args[1] # << >>
    /\ last.preMints[last.b.lp_mint].supply # << >>

\* lp_amount > MAX / reserve, for a non-zero reserve
C8_Overflows(reserve) ==
    reserve # << >> /\ BigGT(last.args[1], BigDiv(U64_MAX, reserve))

\* C8: for remove_liquidity(lp_amount, ..) with lp_amount > 0 and share
\* supply S > 0: if lp_amount > MAX / reserve_a or lp_amount > MAX /
\* reserve_b the call fails with ArithmeticOverflow; a successful call
\* computed amount_a = floor(lp_amount * reserve_a / S) and amount_b =
\* floor(lp_amount * reserve_b / S), and (its five token accounts being
\* five different accounts) took exactly amount_a and amount_b out of the
\* reserves and into the withdrawer's asset accounts and exactly lp_amount
\* out of the withdrawer's share balance and out of the share supply.
C8_RemoveEffect ==
    C8_Case =>
        IF \/ C8_Overflows(PreBal(last.b.pool_token_a))
           \/ C8_Overflows(PreBal(last.b.pool_token_b))
        THEN last.err = "ArithmeticOverflow"
        ELSE last.err = "Ok" =>
           /\ IsFloor(last.calc.amount_a,
                      BigMul(last.args[1], PreBal(last.b.pool_token_a)),
                      last.preMints[last.b.lp_mint].supply)
           /\ IsFloor(last.calc.amount_b,
                      BigMul(last.args[1], PreBal(last.b.pool_token_b)),
                      last.preMints[last.b.lp_mint].supply)
           /\ Cardinality(LiqAccounts(last.b)) = 5 =>
                 /\ BigAdd(PostBal(last.b.pool_token_a), last.calc.amount_a) =
                       PreBal(last.b.pool_token_a)
                 /\ BigAdd(PostBal(last.b.pool_token_b), last.calc.amount_b) =
                       PreBal(last.b.pool_token_b)
                 /\ PostBal(last.b.user_token_a) =
                       BigAdd(PreBal(last.b.user_token_a), last.calc.amount_a)
                 /\ PostBal(last.b.user_token_b) =
                       BigAdd(PreBal(last.b.user_token_b), last.calc.amount_b)
                 /\ BigAdd(PostBal(last.b.user_lp), last.args[1]) =
                       PreBal(last.b.user_lp)
                 /\ BigAdd(mints[last.b.lp_mint].supply, last.args[1]) =
                       last.preMints[last.b.lp_mint].supply

\* a partial withdrawal that pays out on both sides
C8_Witness ==
    /\ C8_Case /\ last.err = "Ok"
    /\ last.args[1] = <<0, 400>>
    /\ last.calc.amount_a # << >> /\ last.calc.amount_b # << >>
    /\ mints[last.b.lp_mint].supply # << >>

SwapAccounts(b) == SwapTokenAccounts(b) \cup {b.owner_token_account}

\* C9: a successful swap whose five token accounts are five different
\* accounts pays the fee (when it is not zero) from the trader to
\* owner_token_account before it moves amount_in_after_fee into the input
\* reserve, and leaves the input reserve larger by exactly
\* amount_in_after_fee, owner_token_account larger by exactly fee, the
\* trader's input account smaller by exactly amount_in, the output reserve
\* smaller and the trader's output account larger by exactly amount_out.
C9_FeeRouting ==
    ( /\ last.op = "swap" /\ last.err = "Ok"
      /\ Cardinality(SwapAccounts(last.b)) = 5 ) =>
        /\ last.calc.fee # << >> =>
              last.cpis = <<"transfer_fee", "transfer_in", "transfer_out">>
        /\ last.calc.fee = << >> => last.cpis = <<"transfer_in", "transfer_out">>
        /\ PostBal(last.b.pool_token_in) =
              BigAdd(PreBal(last.b.pool_token_in), last.calc.amount_in_after_fee)
        /\ PostBal(last.b.owner_token_account) =
              BigAdd(PreBal(last.b.owner_token_account), last.calc.fee)
        /\ BigAdd(PostBal(last.b.user_token_in), last.args[1]) =
              PreBal(last.b.user_token_in)
        /\ BigAdd(PostBal(last.b.pool_token_out), last.calc.amount_out) =
              PreBal(last.b.pool_token_out)
        /\ PostBal(last.b.user_token_out) =
              BigAdd(PreBal(last.b.user_token_out), last.calc.amount_out)

\* a swap of 10_000 that paid a fee of 30
C9_Witness ==
    /\ last.op = "swap" /\ last.err = "Ok"
    /\ Cardinality(SwapAccounts(last.b)) = 5
    /\ last.calc.fee = <<30>>
    /\ last.calc.amount_out # << >>
    /\ PostBal(last.b.owner_token_account) = <<30>>

\* the assets of the pool's pair
PoolPair == {last.prePool.token_a_mint, last.prePool.token_b_mint}

\* the assets and reserve accounts the swap was called with
C10_BadAssets ==
    \/ last.b.token_in_mint = last.b.token_out_mint
    \/ last.b.pool_token_in = last.b.pool_token_out
    \/ last.pre[last.b.pool_token_in].mint = last.pre[last.b.pool_token_out].mint
    \/ ~({last.b.token_in_mint, last.b.token_out_mint} \subseteq PoolPair)
    \/ ~({last.pre[last.b.pool_token_in].mint,
          last.pre[last.b.pool_token_out].mint} \subseteq PoolPair)

\* the pool's recorded reserves are the pool's own and funded; the swap
\* passes every check the code makes before pricing, asks for no minimum,
\* and names five different token accounts
C10_NothingElseWrong ==
    /\ last.pre[last.prePool.token_a_account].owner = LastPool
    /\ last.pre[last.prePool.token_b_account].owner = LastPool
    /\ PreBal(last.prePool.token_a_account) # << >>
    /\ PreBal(last.prePool.token_b_account) # << >>
    /\ last.args[1] # << >>
    /\ last.args[2] = << >>
    /\ last.prePool.fee_denominator # << >>
    /\ BigLE(last.prePool.fee_numerator, last.prePool.fee_denominator)
    /\ PreBal(last.b.pool_token_in) # << >>
    /\ PreBal(last.b.pool_token_out) # << >>
    /\ Cardinality(SwapAccounts(last.b)) = 5

\* C10: a swap whose input and output assets (or reserve accounts) are the
\* same, or whose assets are not the two assets of the pool's pair, fails
\* with InvalidAmount and moves no funds; stated for the swaps that give the
\* code no other reason to fail.
C10_RejectsForeignAssets ==
    (last.op = "swap" /\ C10_BadAssets /\ C10_NothingElseWrong) =>
        /\ last.err = "InvalidAmount"
        /\ accounts = last.pre

\* C11: initialize_pool called with fee_denominator = 0 fails with
\* InvalidAmount, creates no Pool record and emits no PoolCreated event.
\* Stated for fee_numerator > 0; with 0 / 0 the call aborts inside emit!.
C11_ZeroDenominatorRejected ==
    ( /\ last.op = "initialize_pool"
      /\ last.args[2] = << >>
      /\ last.args[1] # << >> ) =>
        /\ last.err = "InvalidAmount"
        /\ pools = last.prePools
        /\ ~last.calc.emitted

\* C12: every Pool record that exists has two different assets,
\* fee_denominator > 0 and fee_numerator <= fee_denominator.
C12_PoolRecordInvariant ==
    \A a \in PoolAddrs : pools[a].initialized =>
        /\ pools[a].token_a_mint # pools[a].token_b_mint
        /\ pools[a].fee_denominator # << >>
        /\ BigLE(pools[a].fee_numerator, pools[a].fee_denominator)

Unchanged ==
    /\ accounts = last.pre
    /\ mints = last.preMints
    /\ pools = last.prePools

ZeroReserve ==
    \/ PreBal(last.b.pool_token_in) = << >>
    \/ PreBal(last.b.pool_token_out) = << >>

\* the pool's fee is a rate: fee_denominator > 0, fee_numerator <=
\* fee_denominator
ValidFee ==
    /\ last.prePool.fee_denominator # << >>
    /\ BigLE(last.prePool.fee_numerator, last.prePool.fee_denominator)

\* the Pool record is as the spec requires (two assets, a fee rate,
\* reserves owned by the pool) and the call names the recorded reserves
SoundPool ==
    /\ last.prePool.initialized
    /\ last.prePool.token_a_mint # last.prePool.token_b_mint
    /\ ValidFee
    /\ last.pre[last.prePool.token_a_account].owner = LastPool
    /\ last.pre[last.prePool.token_b_account].owner = LastPool
    /\ NamedReserves =
          {last.prePool.token_a_account, last.prePool.token_b_account}

C13_RemoveZero ==
    ( /\ last.op = "remove_liquidity"
      /\ \/ last.args[1] = << >>
         \/ last.preMints[last.b.lp_mint].supply = << >> ) =>
        /\ last.err = "InvalidAmount"
        /\ last.cpis = << >>
        /\ Unchanged

C13_SwapZeroAmount ==
    (last.op = "swap" /\ last.args[1] = << >>) =>
        /\ last.err = "InvalidAmount"
        /\ last.cpis = << >>
        /\ Unchanged

\* C13 as stated, for calls on a sound pool: swap with amount_in = 0, swap
\* with reserve_in = 0 or reserve_out = 0, remove_liquidity with lp_amount =
\* 0 or share supply 0 each fail with InvalidAmount, whatever the other
\* arguments, and move no funds.
C13_ZeroInputsAlwaysInvalidAmount ==
    SoundPool =>
        /\ C13_SwapZeroAmount
        /\ C13_RemoveZero
        /\ (last.op = "swap" /\ ZeroReserve) =>
              /\ last.err = "InvalidAmount"
              /\ Unchanged

\* the fee computation of swap fails: the product overflows, the
\* denominator is zero, or the fee exceeds amount_in
C13_FeeFails ==
    \/ ~IsU64(BigMul(last.args[1], last.prePool.fee_numerator))
    \/ last.prePool.fee_denominator = << >>
    \/ BigGT(BigDiv(BigMul(last.args[1], last.prePool.fee_numerator),
                    last.prePool.fee_denominator), last.args[1])

\* C13 (amended): swap with amount_in = 0 fails with InvalidAmount;
\* remove_liquidity with lp_amount = 0 or share supply 0 fails with
\* InvalidAmount; swap with amount_in > 0 and reserve_in = 0 or reserve_out
\* = 0 fails with ArithmeticOverflow when its fee computation fails and
\* with InvalidAmount otherwise; in every case no token call is made and
\* nothing changes.
C13_ZeroInputs ==
    /\ C13_SwapZeroAmount
    /\ C13_RemoveZero
    /\ (last.op = "swap" /\ last.args[1] # << >> /\ ZeroReserve) =>
          /\ last.err = IF C13_FeeFails THEN "ArithmeticOverflow"
                        ELSE "InvalidAmount"
          /\ last.cpis = << >>
          /\ Unchanged

\* a swap of a positive amount refused for an empty output reserve alone
C13_Witness ==
    /\ last.op = "swap" /\ last.args[1] # << >>
    /\ PreBal(last.b.pool_token_in) # << >>
    /\ PreBal(last.b.pool_token_out) = << >>
    /\ ~C13_FeeFails
    /\ last.err = "InvalidAmount"

\* C14: a successful add_liquidity (on a sound pool) raises the share supply
\* if and only if (amount_a > 0 or amount_b > 0) and the computed mint
\* amount is not zero, and otherwise leaves the supply as it was.
C14_SupplyGrowsOnlyWithDeposit ==
    (last.op = "add_liquidity" /\ last.err = "Ok" /\ SoundPool) =>
        /\ BigGT(mints[last.b.lp_mint].supply,
                 last.preMints[last.b.lp_mint].supply)
             <=> /\ last.args[1] # << >> \/ last.args[2] # << >>
                 /\ last.calc.lp_tokens_to_mint # << >>
        /\ \/ BigGT(mints[last.b.lp_mint].supply,
                    last.preMints[last.b.lp_mint].supply)
           \/ mints[last.b.lp_mint].supply = last.preMints[last.b.lp_mint].supply

\* C16: the event of a successful add_liquidity or remove_liquidity (on a
\* sound pool) carries the balances of the two reserves as they are after
\* the instruction's transfers.
C16_EventBalancesArePost ==
    ( /\ last.op \in {"add_liquidity", "remove_liquidity"}
      /\ last.err = "Ok"
      /\ SoundPool
      /\ Cardinality(LiqAccounts(last.b)) = 5 ) =>
        /\ last.event.pool_token_a_balance = PostBal(last.b.pool_token_a)
        /\ last.event.pool_token_b_balance = PostBal(last.b.pool_token_b)

EngineErrors == {"InvalidAmount", "ArithmeticOverflow", "SlippageExceeded"}

\* C19: an add_liquidity, swap or remove_liquidity that fails with
\* InvalidAmount, ArithmeticOverflow or SlippageExceeded has issued no
\* transfer, mint or burn; once a call into the token program has been
\* issued the instruction ends in success or in the token program's own
\* refusal.
C19_ValidateThenAct ==
    last.op \in {"add_liquidity", "swap", "remove_liquidity"} =>
        /\ last.err \in EngineErrors => last.cpis = << >> /\ Unchanged
        /\ last.cpis # << >> => last.err \in {"Ok", "TokenError"}

\* a swap priced below the caller's minimum, on a funded pool
C19_Witness ==
    /\ last.op = "swap" /\ last.err = "SlippageExceeded"
    /\ last.calc.amount_out # << >>
    /\ last.cpis = << >>

\* ------------------------------------------------------------------------
\* Deposits over mints of different decimals (SpecAdd)
\* ------------------------------------------------------------------------

\* the decimals of asset A, asset B and the share token of the last call
DecA  == last.preMints[last.b.token_a_mint].decimals
DecB  == last.preMints[last.b.token_b_mint].decimals
DecLp == last.preMints[last.b.lp_mint].decimals

Distance(d1, d2) == IF d1 > d2 THEN d1 - d2 ELSE d2 - d1

\* both powers of ten the normalizations use are in the u64 range
PowersFit ==
    /\ IsU64(Pow10(Distance(DecA, DecLp)))
    /\ IsU64(Pow10(Distance(DecB, DecLp)))

\* a proportional (non-bootstrap) add_liquidity that got as far as the two
\* per-side issuance values
AddPriced ==
    /\ last.op = "add_liquidity"
    /\ ~last.calc.bootstrap
    /\ Priced

\* amount_a / reserve_a = amount_b / reserve_b as rationals, reserves
\* non-zero
BalancedDeposit ==
    /\ last.calc.reserve_a # << >>
    /\ last.calc.reserve_b # << >>
    /\ BigMul(last.args[1], last.calc.reserve_b)
         = BigMul(last.args[2], last.calc.reserve_a)

\* C15: in every non-bootstrap add_liquidity whose raw amounts are balanced
\* (amount_a / reserve_a = amount_b / reserve_b exactly, reserves non-zero),
\* whatever the decimals of the two assets and of the share token, the two
\* per-side issuance values are equal: lp_tokens_a = lp_tokens_b.  Stated
\* for decimals whose powers of ten fit u64.
C15_BalancedDepositSymmetric ==
    (AddPriced /\ BalancedDeposit /\ PowersFit)
        => last.calc.lp_tokens_a = last.calc.lp_tokens_b

\* ------------------------------------------------------------------------
\* normalize_amount there and back (SpecNorm)
\* ------------------------------------------------------------------------

\* both normalizations of a round trip returned a value
RoundTripDone ==
    /\ last.op = "normalize_amount"
    /\ steps = 2
    /\ last.there.err = "Ok"
    /\ last.back.err = "Ok"

\* C17: when an amount x is normalized from d1 to d2 decimals and the
\* result back from d2 to d1, and neither normalization fails, the value y
\* that comes back satisfies y <= x and x - y < 10^max(d1 - d2, 0): the
\* round trip loses at most the truncated digits and never amplifies.
C17_RoundTrip ==
    RoundTripDone
        => /\ BigLE(last.back.val, last.x)
           /\ BigLT(BigSub(last.x, last.back.val),
                    Pow10(IF last.d1 > last.d2 THEN last.d1 - last.d2 ELSE 0))

\* a round trip through fewer decimals that truncated digits away
C17_Witness ==
    /\ RoundTripDone
    /\ last.d1 > last.d2
    /\ last.there.val # << >>
    /\ BigLT(last.back.val, last.x)

\* ------------------------------------------------------------------------
\* The issuance formula (SpecAdd)
\* ------------------------------------------------------------------------

\* na, nb, nRa, nRb: the amounts and the reserves of the last call on the
\* share token's decimal scale
NormA == normalize_amount(last.args[1], DecA, DecLp, overflow_checks)
NormB == normalize_amount(last.args[2], DecB, DecLp, overflow_checks)
NormPoolA == normalize_amount(last.calc.reserve_a, DecA, DecLp, overflow_checks)
NormPoolB == normalize_amount(last.calc.reserve_b, DecB, DecLp, overflow_checks)

\* a non-bootstrap add_liquidity whose four normalizations returned a value
C18_Case ==
    /\ last.op = "add_liquidity"
    /\ ~(last.calc.reserve_a = << >> /\ last.calc.reserve_b = << >>)
    /\ NormA.err = "Ok" /\ NormB.err = "Ok"
    /\ NormPoolA.err = "Ok" /\ NormPoolB.err = "Ok"

\* n * S exceeds the u64 range
ProductOverflows(n) == BigGT(BigMul(n, last.calc.lp_supply), U64_MAX)

\* lp = floor(n * S / np) if np > 0 else 0
SideIs(lp, n, np) ==
    IF np = << >> THEN lp = << >>
    ELSE IsFloor(lp, BigMul(n, last.calc.lp_supply), np)

\* the formula, given when the call is to fail with ArithmeticOverflow
IssuanceFormula(overflows) ==
    IF overflows THEN last.err = "ArithmeticOverflow"
    ELSE /\ Priced
         /\ SideIs(last.calc.lp_tokens_a, NormA.val, NormPoolA.val)
         /\ SideIs(last.calc.lp_tokens_b, NormB.val, NormPoolB.val)
         /\ last.calc.lp_tokens_to_mint
              = BigMin(last.calc.lp_tokens_a, last.calc.lp_tokens_b)

\* C18 as stated: in a non-bootstrap add_liquidity lp_for_a = floor(na * S /
\* nRa) if nRa > 0 else 0, likewise lp_for_b, the amount to mint is their
\* minimum, and the call fails with ArithmeticOverflow whenever na * S or
\* nb * S exceeds the u64 range.
C18_IssuanceFormula ==
    C18_Case
        => IssuanceFormula(ProductOverflows(NormA.val)
                           \/ ProductOverflows(NormB.val))

\* C18, amended: as above, and the call fails with ArithmeticOverflow
\* whenever na * S exceeds the u64 range with nRa > 0, or nb * S exceeds it
\* with nRb > 0; a side whose normalized reserve is 0 is issued 0 and its
\* product is never formed.
C18_IssuanceFormulaChecked ==
    C18_Case
        => IssuanceFormula(
               \/ NormPoolA.val # << >> /\ ProductOverflows(NormA.val)
               \/ NormPoolB.val # << >> /\ ProductOverflows(NormB.val))

\* a deposit whose product na * S is past u64 over a non-zero normalized
\* reserve, refused
C18_Witness ==
    /\ C18_Case
    /\ NormPoolA.val # << >>
    /\ ProductOverflows(NormA.val)
    /\ last.err = "ArithmeticOverflow"

\* ------------------------------------------------------------------------
\* Normalization overflow (SpecAdd)
\* ------------------------------------------------------------------------

\* a value v > 0 of an asset with d decimals, fewer than the share token's,
\* whose scaling by 10^(decimals_diff) is past the u64 range
ScaleOverflows(v, d) ==
    /\ d < DecLp
    /\ v # << >>
    /\ BigGT(BigMul(v, Pow10(DecLp - d)), U64_MAX)

C20_Case ==
    /\ last.op = "add_liquidity"
    /\ ~(last.calc.reserve_a = << >> /\ last.calc.reserve_b = << >>)
    /\ \/ ScaleOverflows(last.args[1], DecA)
       \/ ScaleOverflows(last.args[2], DecB)
       \/ ScaleOverflows(last.calc.reserve_a, DecA)
       \/ ScaleOverflows(last.calc.reserve_b, DecB)

\* C20: a non-bootstrap add_liquidity in which an amount or a reserve of an
\* asset with fewer decimals than the share token cannot be scaled up by
\* 10^(decimals_diff) within the u64 range fails with ArithmeticOverflow,
\* never with another abort and never after computing with a wrapped
\* value, and moves no funds.
C20_NormalizationOverflow ==
    C20_Case => (last.err = "ArithmeticOverflow" /\ Unchanged)

\* ------------------------------------------------------------------------
\* The bootstrap issuance over sequences of instructions (Spec)
\* ------------------------------------------------------------------------

\* C21: starting from an empty pool, after any sequence of add_liquidity,
\* swap and remove_liquidity, an add_liquidity (on a sound pool) that mints
\* the fixed 1_000_000 bootstrap issuance finds the share supply at zero:
\* with a share supply > 0 the bootstrap condition (both reserves zero)
\* does not hold.
C21_BootstrapOnlyAtZeroSupply ==
    ( /\ last.op = "add_liquidity" /\ last.err = "Ok"
      /\ SoundPool
      /\ last.calc.bootstrap )
        => last.preMints[last.b.lp_mint].supply = << >>

\* ------------------------------------------------------------------------
\* Asset conservation (Spec)
\* ------------------------------------------------------------------------

\* the two assets of the pool the last instruction ran on
PoolAssets == {last.prePool.token_a_mint, last.prePool.token_b_mint}

\* the units of asset m in all token accounts, and its supply, are what they
\* were before the last instruction
Conserved(m) ==
    /\ Held(accounts, m) = Held(last.pre, m)
    /\ mints[m].supply = last.preMints[m].supply

\* what a successful swap or remove_liquidity paid out was in the reserve
PayoutWithinReserve ==
    /\ (last.op = "swap" /\ last.err = "Ok")
          => BigLE(last.calc.amount_out, PreBal(last.b.pool_token_out))
    /\ (last.op = "remove_liquidity" /\ last.err = "Ok")
          => /\ BigLE(last.calc.amount_a, PreBal(last.b.pool_token_a))
             /\ BigLE(last.calc.amount_b, PreBal(last.b.pool_token_b))

\* C22: after every add_liquidity, swap and remove_liquidity (on a sound
\* pool), successful or failed, the sum of the balances of each of the
\* pool's two assets over all accounts (users', reserves, fee recipient's)
\* and the asset's supply are what they were before it: units are only
\* moved, never created or destroyed; and a successful payout does not
\* exceed the reserve it is paid from.
C22_AssetConservation ==
    ( /\ last.op \in {"add_liquidity", "swap", "remove_liquidity"}
      /\ SoundPool )
        => /\ \A m \in PoolAssets : Conserved(m)
           /\ PayoutWithinReserve

====
